---- MODULE Spec2Model ----
(***************************************************************************)
(* Model of src/app.py: T-shirt / tag stock keeping (Streamlit app).       *)
(*                                                                         *)
(* Text is modelled as a sequence of Unicode code points, so that the      *)
(* substring tests, the NFC normalisation and the full-width translation   *)
(* of the source are computed and not assumed.  Calendar dates are the     *)
(* integers yyyymmdd; their order is the lexicographic order of the        *)
(* 'YYYY-MM-DD' strings the source compares.                               *)
(*                                                                         *)
(* Catalog names (ASCII stand-ins for the source's string literals):       *)
(*   white_nasi = (ホワイト)ゼンプロマークなし   black_nasi = (ブラック)…なし       *)
(*   white_ari  = (ホワイト)ゼンプロマークあり   black_ari  = (ブラック)…あり       *)
(***************************************************************************)
EXTENDS Integers, Sequences, FiniteSets, TLC

\* ------------------------------------------------------------------------
\* Bounds of the model
\* ------------------------------------------------------------------------
MaxOps == 3         \* user operations per behaviour
MaxDay == 20251227  \* the clock stops advancing at this date
MaxCount == 1       \* largest value typed into a number_input
MaxAmount == 2      \* largest tag amount submitted
MaxPieces == 3      \* pieces concatenated into a file name / size label
MaxPad == 16        \* empty rows above the header row of a parsed sheet

\* ------------------------------------------------------------------------
\* Catalog and seed data
\* ------------------------------------------------------------------------
INITIAL_DATA_START == 20251214
INITIAL_DATA_END == 20251226

TSHIRT_TYPES == <<"white_nasi", "black_nasi", "white_ari", "black_ari">>
SIZES == <<"150cm", "160cm", "S", "M", "L", "XL", "XXL">>

Range(s) == {s[i] : i \in 1..Len(s)}
Types == Range(TSHIRT_TYPES)
Sizes == Range(SIZES)

INITIAL_INVENTORY_BLACK_ARI ==
  [s \in Sizes |-> CASE s = "150cm" -> 10 [] s = "160cm" -> 5 [] s = "S" -> 0
                     [] s = "M" -> 14 [] s = "L" -> 12 [] s = "XL" -> 1
                     [] s = "XXL" -> 3]

ZeroGrid == [t \in Types |-> [s \in Sizes |-> 0]]

SeedGrid ==
  [t \in Types |-> [s \in Sizes |->
      IF t = "black_ari" THEN INITIAL_INVENTORY_BLACK_ARI[s] ELSE 0]]

Noon == "T12:00:00"

\* records as generate_initial_records builds them: newest date first,
\* each with its own grid (the value; the caller places it on the heap)
generate_initial_records ==
  LET n == (INITIAL_DATA_END - INITIAL_DATA_START) + 1
  IN  [i \in 1..n |->
         [date |-> INITIAL_DATA_END - (i - 1),
          timestamp |-> [date |-> INITIAL_DATA_END - (i - 1), time |-> Noon],
          inventory |-> SeedGrid,
          note |-> "seed"]]

\* ------------------------------------------------------------------------
\* Text: code points, containment, normalisation
\* ------------------------------------------------------------------------
\* code points used below
\*   白 30333  黒 40658  ホ 12507 ワ 12527 イ 12452 ト 12488
\*   ブ 12502 ラ 12521 ッ 12483 ク 12463  あ 12354 り 12426  な 12394 し 12375
\*   フ 12501  じ 12376  combining dakuten 12441
\*   （ 65288  ） 65289  ( 40  ) 41   商 21830 品 21697 名 21517
TOK_shiro == <<30333>>
TOK_white == <<12507, 12527, 12452, 12488>>
TOK_kuro == <<40658>>
TOK_black == <<12502, 12521, 12483, 12463>>
TOK_ari == <<12354, 12426>>
TOK_nasi == <<12394, 12375>>
TOK_shohinmei == <<21830, 21697, 21517>>
TOK_nan == <<110, 97, 110>>

\* Python's `sub in s`
Contains(sub, s) ==
  \E i \in 0..(Len(s) - Len(sub)) :
     \A j \in 1..Len(sub) : s[i + j] = sub[j]

\* canonical composition of a base character with a combining dakuten,
\* for the pairs that occur in the alphabets of this model
ComposePair(a, b) ==
  IF b = 12441 /\ a = 12501 THEN 12502       \* フ + dakuten = ブ
  ELSE IF b = 12441 /\ a = 12375 THEN 12376  \* し + dakuten = じ
  ELSE 0

RECURSIVE NfcFrom(_, _)
NfcFrom(s, i) ==
  IF i > Len(s) THEN <<>>
  ELSE IF i < Len(s) /\ ComposePair(s[i], s[i + 1]) # 0
       THEN <<ComposePair(s[i], s[i + 1])>> \o NfcFrom(s, i + 2)
       ELSE <<s[i]>> \o NfcFrom(s, i + 1)

\* unicodedata.normalize('NFC', s)
normalize_str(s) == NfcFrom(s, 1)

IsSpace(c) == c \in {32, 9, 10, 13, 12288}

RECURSIVE LStrip(_)
LStrip(s) == IF s # <<>> /\ IsSpace(Head(s)) THEN LStrip(Tail(s)) ELSE s

RECURSIVE RStrip(_)
RStrip(s) ==
  IF s # <<>> /\ IsSpace(s[Len(s)]) THEN RStrip(SubSeq(s, 1, Len(s) - 1)) ELSE s

\* str.strip()
Strip(s) == RStrip(LStrip(s))

\* str.translate with {chr(0xFF01 + i): chr(0x21 + i) for i in range(94)}
FoldFullWidth(c) == IF c >= 65281 /\ c < 65281 + 94 THEN (c - 65281) + 33 ELSE c

Translate(s) == [i \in 1..Len(s) |-> FoldFullWidth(s[i])]

\* .replace of the two full-width parentheses
ReplaceParens(s) ==
  [i \in 1..Len(s) |-> IF s[i] = 65288 THEN 40 ELSE IF s[i] = 65289 THEN 41 ELSE s[i]]

\* ------------------------------------------------------------------------
\* determine_type_from_filename
\* ------------------------------------------------------------------------
\* file names of the model hold no path separator: os.path.basename keeps them
FileBase(filename) == ReplaceParens(normalize_str(filename))

is_white(base) == Contains(TOK_shiro, base) \/ Contains(TOK_white, base)
is_black(base) == Contains(TOK_kuro, base) \/ Contains(TOK_black, base)
is_ari(base) == Contains(TOK_ari, base)
is_nasi(base) == Contains(TOK_nasi, base)

determine_type_from_filename(filename) ==
  LET base == FileBase(filename)
  IN  IF is_white(base) /\ is_nasi(base) THEN "white_nasi"
      ELSE IF is_white(base) /\ is_ari(base) THEN "white_ari"
      ELSE IF is_black(base) /\ is_nasi(base) THEN "black_nasi"
      ELSE IF is_black(base) /\ is_ari(base) THEN "black_ari"
      ELSE "None"

\* ------------------------------------------------------------------------
\* normalize_size
\* ------------------------------------------------------------------------
\* '1' 49 '5' 53 '0' 48 '6' 54 '3' 51 'X' 88 'L' 76 'M' 77 'S' 83
T150 == <<49, 53, 48>>
T160 == <<49, 54, 48>>
TXXL == <<88, 88, 76>>
T3L == <<51, 76>>
TXL == <<88, 76>>
TLL == <<76, 76>>
TL == <<76>>
TM == <<77>>
TS == <<83>>

SizeVal(cell_value) == Translate(Strip(normalize_str(cell_value)))

normalize_size_mut(cell_value) ==
  LET val == SizeVal(cell_value)
  IN  IF Contains(T150, val) THEN "150cm"
      ELSE IF Contains(T160, val) THEN "160cm"
      ELSE IF Contains(TXL, val) \/ Contains(TLL, val) THEN "XL"
      ELSE IF Contains(TXXL, val) \/ Contains(T3L, val) THEN "XXL"
      ELSE IF Contains(TL, val) THEN "L"
      ELSE IF Contains(TM, val) THEN "M"
      ELSE IF Contains(TS, val) THEN "S"
      ELSE "None"

normalize_size(cell_value) ==
  LET val == SizeVal(cell_value)
  IN  IF Contains(T150, val) THEN "150cm"
      ELSE IF Contains(T160, val) THEN "160cm"
      ELSE IF Contains(TXXL, val) \/ Contains(T3L, val) THEN "XXL"
      ELSE IF Contains(TXL, val) \/ Contains(TLL, val) THEN "XL"
      ELSE IF Contains(TL, val) THEN "L"
      ELSE IF Contains(TM, val) THEN "M"
      ELSE IF Contains(TS, val) THEN "S"
      ELSE "None"

\* ------------------------------------------------------------------------
\* Spreadsheet cells, as pandas hands them over
\*   [k |-> "nan"]                 empty cell (NaN)
\*   [k |-> "str", s |-> text]     text cell
\*   [k |-> "int", n |-> i]        integer cell
\*   [k |-> "float", n |-> tenths] floating point cell holding tenths / 10
\*   [k |-> "date", d |-> yyyymmdd] datetime cell
\* Text cells of the model use ASCII digits, '.', '-', '/', blanks and the
\* letters of the size and marker tokens only (no exponent, underscore,
\* "inf"/"nan" spellings or full-width digits inside numbers and dates).
\* ------------------------------------------------------------------------
NaN == [k |-> "nan"]
StrCell(s) == [k |-> "str", s |-> s]
IntCell(i) == [k |-> "int", n |-> i]
FloatCell(tenths) == [k |-> "float", n |-> tenths]
DateCell(d) == [k |-> "date", d |-> d]

IsDigit(c) == c >= 48 /\ c <= 57

RECURSIVE NatToStr(_)
NatToStr(n) ==
  IF n < 10 THEN <<48 + n>> ELSE NatToStr(n \div 10) \o <<48 + (n % 10)>>

IntToStr(i) == IF i < 0 THEN <<45>> \o NatToStr(0 - i) ELSE NatToStr(i)

Pad2(n) == IF n < 10 THEN <<48>> \o NatToStr(n) ELSE NatToStr(n)

\* str(value) of a cell
Str(c) ==
  CASE c.k = "nan" -> TOK_nan
    [] c.k = "str" -> c.s
    [] c.k = "int" -> IntToStr(c.n)
    [] c.k = "float" ->
         (IF c.n < 0 THEN <<45>> ELSE <<>>)
           \o NatToStr((IF c.n < 0 THEN 0 - c.n ELSE c.n) \div 10)
           \o <<46>> \o NatToStr((IF c.n < 0 THEN 0 - c.n ELSE c.n) % 10)
    [] c.k = "date" ->
         NatToStr(c.d \div 10000) \o <<45>> \o Pad2((c.d \div 100) % 100)
           \o <<45>> \o Pad2(c.d % 100)
           \o <<32, 48, 48, 58, 48, 48, 58, 48, 48>>

RECURSIVE DigitsVal(_)
DigitsVal(s) ==
  IF s = <<>> THEN 0 ELSE DigitsVal(SubSeq(s, 1, Len(s) - 1)) * 10 + (s[Len(s)] - 48)

AllDigits(s) == \A i \in 1..Len(s) : IsDigit(s[i])

\* positions of c in s
Positions(s, c) == {i \in 1..Len(s) : s[i] = c}

DaysIn(y, m) ==
  IF m \in {4, 6, 9, 11} THEN 30
  ELSE IF m = 2 THEN (IF y % 4 = 0 /\ (y % 100 # 0 \/ y % 400 = 0) THEN 29 ELSE 28)
  ELSE 31

\* parse_excel_date: the date yyyymmdd, or 0 for None
parse_excel_date(value) ==
  IF value.k = "nan" THEN 0
  ELSE IF value.k = "date" THEN value.d
  ELSE
    LET raw == Strip(Str(value))
        val_str == [i \in 1..Len(raw) |-> IF raw[i] = 47 THEN 45 ELSE raw[i]]
        dashes == Positions(val_str, 45)
    IN  IF Cardinality(dashes) # 2 THEN 0
        ELSE
          LET p1 == CHOOSE i \in dashes : \A j \in dashes : i <= j
              p2 == CHOOSE i \in dashes : \A j \in dashes : i >= j
              ys == SubSeq(val_str, 1, p1 - 1)
              ms == SubSeq(val_str, p1 + 1, p2 - 1)
              ds == SubSeq(val_str, p2 + 1, Len(val_str))
          IN  IF /\ Len(ys) = 4 /\ AllDigits(ys)
                 /\ Len(ms) \in {1, 2} /\ AllDigits(ms)
                 /\ Len(ds) \in {1, 2} /\ AllDigits(ds)
                 /\ DigitsVal(ms) \in 1..12
                 /\ DigitsVal(ds) \in 1..DaysIn(DigitsVal(ys), DigitsVal(ms))
              THEN DigitsVal(ys) * 10000 + DigitsVal(ms) * 100 + DigitsVal(ds)
              ELSE 0

\* float(s) for a text cell, truncated by int(): [ok, v] with v the integer
\* part with its sign when s is [sign] digits [. digits]; ok = FALSE when
\* float() raises
IntOfFloatText(s0) ==
  LET s == Strip(s0)
      neg == s # <<>> /\ s[1] = 45
      body == IF s # <<>> /\ s[1] \in {43, 45} THEN Tail(s) ELSE s
      dots == Positions(body, 46)
      dot == IF dots = {} THEN Len(body) + 1 ELSE CHOOSE i \in dots : TRUE
      ip == SubSeq(body, 1, dot - 1)
      fp == SubSeq(body, dot + 1, Len(body))
  IN  IF Cardinality(dots) <= 1 /\ AllDigits(ip) /\ AllDigits(fp) /\ Len(ip) + Len(fp) > 0
      THEN [ok |-> TRUE, v |-> IF neg THEN 0 - DigitsVal(ip) ELSE DigitsVal(ip)]
      ELSE [ok |-> FALSE, v |-> 0]

\* int() of a float given in tenths: truncation toward zero
TruncTenths(n) == IF n < 0 THEN 0 - ((0 - n) \div 10) ELSE n \div 10

\* int(float(val)) if pd.notnull(val) and str(val).strip() != '' else 0,
\* any exception giving 0
CellCount(val) ==
  CASE val.k = "nan" -> 0
    [] val.k = "int" -> val.n
    [] val.k = "float" -> TruncTenths(val.n)
    [] val.k = "date" -> 0
    [] val.k = "str" ->
         IF Strip(val.s) = <<>> THEN 0
         ELSE IF IntOfFloatText(val.s).ok THEN IntOfFloatText(val.s).v
         ELSE 0

\* ------------------------------------------------------------------------
\* import_matrix_excel_fast
\* A file is [name |-> text, df |-> sequence of rows of equal length].
\* date_records is [dates |-> keys in insertion order,
\*                  data |-> date -> type -> size -> count].
\* ------------------------------------------------------------------------
EmptyDateRecords == [dates |-> <<>>, data |-> <<>>]

\* date_records[date_str][target_type][size] = count, creating the levels
PutObservation(dr, d, t, s, c) ==
  LET hasD == d \in DOMAIN dr.data
      byType == IF hasD THEN dr.data[d] ELSE <<>>
      hasT == t \in DOMAIN byType
      bySize == IF hasT THEN byType[t] ELSE <<>>
      bySize2 == [x \in (DOMAIN bySize) \cup {s} |-> IF x = s THEN c ELSE bySize[x]]
      byType2 == [x \in (DOMAIN byType) \cup {t} |-> IF x = t THEN bySize2 ELSE byType[x]]
  IN  [dates |-> IF hasD THEN dr.dates ELSE Append(dr.dates, d),
       data |-> [x \in (DOMAIN dr.data) \cup {d} |-> IF x = d THEN byType2 ELSE dr.data[x]]]

RowHasMarker(row) == \E j \in 1..Len(row) : Contains(TOK_shohinmei, Str(row[j]))

\* index of the first row holding the marker, 0 when there is none
header_row_idx(df) ==
  IF \E i \in 1..Len(df) : RowHasMarker(df[i])
  THEN CHOOSE i \in 1..Len(df) :
         RowHasMarker(df[i]) /\ \A j \in 1..(i - 1) : ~RowHasMarker(df[j])
  ELSE 0

\* columns of the header whose cell parses as a date
DateCols(header) == {j \in 1..Len(header) : parse_excel_date(header[j]) # 0}

\* the text the size is read from: first of column 0, column 1 that is
\* neither empty nor 'nan'
product_name(row) ==
  LET c0 == Str(row[1])
      c1 == IF Len(row) > 1 THEN Str(row[2]) ELSE <<>>
  IN  IF c0 # <<>> /\ c0 # TOK_nan THEN c0
      ELSE IF c1 # <<>> /\ c1 # TOK_nan THEN c1
      ELSE <<>>

RECURSIVE ReadCols(_, _, _, _, _, _)
ReadCols(dr, header, row, target_type, size, j) ==
  IF j > Len(header) THEN dr
  ELSE IF j \in DateCols(header)
       THEN ReadCols(PutObservation(dr, parse_excel_date(header[j]), target_type,
                                    size, CellCount(row[j])),
                     header, row, target_type, size, j + 1)
       ELSE ReadCols(dr, header, row, target_type, size, j + 1)

RECURSIVE ReadRows(_, _, _, _, _)
ReadRows(dr, df, h, target_type, i) ==
  IF i > Len(df) THEN dr
  ELSE LET size == normalize_size(product_name(df[i]))
       IN  IF size = "None" THEN ReadRows(dr, df, h, target_type, i + 1)
           ELSE ReadRows(ReadCols(dr, df[h], df[i], target_type, size, 1),
                         df, h, target_type, i + 1)

ReadFile(dr, file) ==
  LET target_type == determine_type_from_filename(file.name)
      h == header_row_idx(file.df)
  IN  IF target_type = "None" THEN dr
      ELSE IF h = 0 THEN dr
      ELSE IF DateCols(file.df[h]) = {} THEN dr
      ELSE ReadRows(dr, file.df, h, target_type, h + 1)

RECURSIVE ReadFiles(_, _, _)
ReadFiles(dr, uploaded_files, k) ==
  IF k > Len(uploaded_files) THEN dr
  ELSE ReadFiles(ReadFile(dr, uploaded_files[k]), uploaded_files, k + 1)

import_matrix_excel_fast(uploaded_files) == ReadFiles(EmptyDateRecords, uploaded_files, 1)

\* ------------------------------------------------------------------------
\* State
\* ------------------------------------------------------------------------
VARIABLES
  started,    \* a session exists (st.session_state is populated)
  records,    \* st.session_state.records: sequence of records whose
              \* 'inventory' is a reference into heap
  inventory,  \* st.session_state.inventory: a reference into heap
  heap,       \* the grid objects (dict of dicts) that are referenced
  tags,       \* st.session_state.tags
  edit_mode,  \* dates d with st.session_state.edit_mode[d] = True
  recFile,    \* data/daily_records.json
  invFile,    \* data/inventory_data.json
  tagFile,    \* data/tag_data.json
  today,      \* datetime.now(), to the day
  nops,       \* operations performed so far
  last_op,    \* the operation performed last and its input
  arg,        \* argument of the pure function under test
  ret         \* its result

vars == <<started, records, inventory, heap, tags, edit_mode, recFile, invFile,
          tagFile, today, nops, last_op, arg, ret>>

Absent == [exists |-> FALSE, data |-> <<>>]
FileOf(x) == [exists |-> TRUE, data |-> x]

\* last_op: the operation, the observations of an import, and whether the
\* operation before it was an import of the same observations
NoOp == [op |-> "none", dr |-> EmptyDateRecords, again |-> FALSE]
Op(name) == [op |-> name, dr |-> EmptyDateRecords, again |-> FALSE]

\* ------------------------------------------------------------------------
\* Sorting as Python's sorted(..., key=..., reverse=True): descending and
\* stable (equal keys keep their relative order)
\* ------------------------------------------------------------------------
RECURSIVE InsertDesc(_, _)
InsertDesc(sorted, p) ==
  IF sorted = <<>> THEN <<p>>
  ELSE IF Head(sorted).key >= p.key
       THEN <<Head(sorted)>> \o InsertDesc(Tail(sorted), p)
       ELSE <<p>> \o sorted

RECURSIVE SortDescFrom(_, _, _)
SortDescFrom(acc, keyed, i) ==
  IF i > Len(keyed) THEN acc
  ELSE SortDescFrom(InsertDesc(acc, keyed[i]), keyed, i + 1)

\* keys is the sequence of sort keys of seq's elements
SortDesc(seq, keys) ==
  LET keyed == [i \in 1..Len(seq) |-> [key |-> keys[i], item |-> seq[i]]]
      out == SortDescFrom(<<>>, keyed, 1)
  IN  [i \in 1..Len(seq) |-> out[i].item]

\* sorted(records, key=lambda x: x['date'], reverse=True)
SortByDateDesc(seq) == SortDesc(seq, [i \in 1..Len(seq) |-> seq[i].date])

\* sorted(history, key=lambda x: x.get('timestamp', ''), reverse=True)
SortByTimestampDesc(seq) == SortDesc(seq, [i \in 1..Len(seq) |-> seq[i].timestamp])

\* ------------------------------------------------------------------------
\* Heap of grid objects
\* ------------------------------------------------------------------------
Refs(recs, inv) == {inv} \cup {recs[i].inventory : i \in 1..Len(recs)}

\* a reference no live object uses
NewRef(used) == CHOOSE i \in 1..(Cardinality(used) + 1) :
                  i \notin used /\ \A j \in 1..(i - 1) : j \in used

\* objects nothing refers to any more are dropped
Collect(h, recs, inv) == [i \in (DOMAIN h) \cap Refs(recs, inv) |-> h[i]]

\* obj[ttype][size] = v
SetCell(h, ref, ttype, size, v) ==
  [h EXCEPT ![ref] = [@ EXCEPT ![ttype] = [@ EXCEPT ![size] = v]]]

Alloc(h, ref, grid) == [i \in (DOMAIN h) \cup {ref} |-> IF i = ref THEN grid ELSE h[i]]

\* a record as json.dump writes it: the grid by value
RecordValue(h, r) == [r EXCEPT !.inventory = h[r.inventory]]
RecordValues(h, recs) == [i \in 1..Len(recs) |-> RecordValue(h, recs[i])]

\* ------------------------------------------------------------------------
\* InventoryManager persistence
\* ------------------------------------------------------------------------
save_records(h, recs) == FileOf(SortByDateDesc(RecordValues(h, recs)))
save_inventory(h, inv) == FileOf(h[inv])
save_tags(t) == FileOf(t)

DefaultTags == [current_stock |-> 0, history |-> <<>>]

\* load_records: the record values, and the file as load_records leaves it
load_records(file) ==
  IF file.exists THEN [recs |-> SortByDateDesc(file.data), file |-> file]
  ELSE [recs |-> generate_initial_records,
        file |-> FileOf(SortByDateDesc(generate_initial_records))]

load_inventory_mut(file) ==
  IF generate_initial_records # <<>> THEN generate_initial_records[1].inventory
  ELSE ZeroGrid

load_inventory(file) ==
  IF file.exists THEN file.data
  ELSE IF generate_initial_records # <<>> THEN generate_initial_records[1].inventory
  ELSE ZeroGrid

load_tags(file) ==
  IF file.exists
  THEN [file.data EXCEPT !.history = SortByTimestampDesc(@)]
  ELSE DefaultTags

\* ------------------------------------------------------------------------
\* Inputs of the model
\* ------------------------------------------------------------------------
\* the cells of the current grid and of a snapshot the user edits
UICells == {<<"black_ari", "XL">>, <<"white_nasi", "M">>}

\* the dates whose snapshots the user opens in the records tab
UIDates == {INITIAL_DATA_END, MaxDay + 1}

\* a grid left in data/inventory_data.json by an earlier session
EarlierGrid == [SeedGrid EXCEPT !["white_nasi"]["M"] = 1]

\* a sheet: pad empty rows, the header row, one data row
Sheet(pad, dcell, c0, c1, v) ==
  [i \in 1..pad |-> <<NaN, NaN, NaN>>]
    \o << <<StrCell(TOK_shohinmei), NaN, dcell>>, <<c0, c1, v>> >>

\* file name and size label of the files the user uploads:
\*   黒_あり with "XL" in column 0; 白黒なし with full-width M in column 1;
\*   x (no variant) with "XL" in column 0
NameAndLabel ==
  { [name |-> <<40658, 95, 12354, 12426>>, c0 |-> StrCell(TXL), c1 |-> NaN],
    [name |-> <<30333, 40658, 12394, 12375>>, c0 |-> NaN, c1 |-> StrCell(<<65325>>)],
    [name |-> <<120>>, c0 |-> StrCell(TXL), c1 |-> NaN] }

HeaderDateCells ==
  { DateCell(INITIAL_DATA_END),
    \* "2025/12/" followed by the day after MaxDay
    StrCell(<<50, 48, 50, 53, 47, 49, 50, 47>> \o NatToStr((MaxDay + 1) % 100)) }

ValueCells == { FloatCell(-15), StrCell(<<50, 46, 48>>), StrCell(<<97, 98, 99>>) }  \* -1.5, "2.0", "abc"

UploadedFiles ==
  { [name |-> nl.name, df |-> Sheet(0, d, nl.c0, nl.c1, v)] :
      nl \in NameAndLabel, d \in HeaderDateCells, v \in ValueCells }

\* one file, or two files of different names holding the same header and value
SameSheet(f, g) == f.df[1] = g.df[1] /\ f.df[2][3] = g.df[2][3] /\ f.name # g.name

Uploads ==
  { <<f>> : f \in UploadedFiles }
    \cup { <<p[1], p[2]>> : p \in {q \in UploadedFiles \X UploadedFiles : SameSheet(q[1], q[2])} }

\* what import_matrix_excel_fast returns for the uploads of the model
ParsedUploads == { import_matrix_excel_fast(u) : u \in Uploads }

\* ------------------------------------------------------------------------
\* Initial state: the data directory before a session starts.  Either a
\* fresh deployment (no file), or a directory whose daily records were all
\* deleted in an earlier session (records file holding the empty list), the
\* inventory file being absent or left by an edit of that session.
\* ------------------------------------------------------------------------
Init ==
  /\ started = FALSE
  /\ records = <<>>
  /\ inventory = 0
  /\ heap = <<>>
  /\ tags = DefaultTags
  /\ edit_mode = {}
  /\ \/ recFile = Absent /\ invFile = Absent
     \/ recFile = FileOf(<<>>) /\ invFile \in {Absent, FileOf(EarlierGrid)}
  /\ tagFile = Absent
  /\ today = INITIAL_DATA_END
  /\ nops = 0
  /\ last_op = NoOp
  /\ arg = <<>>
  /\ ret = ""

PureUnchanged == UNCHANGED <<arg, ret>>

\* an operation of a running session, within the budget
CanAct == started /\ nops < MaxOps

Done(name) == nops' = nops + 1 /\ last_op' = Op(name)

\* the clock passes midnight
Tick ==
  /\ today < MaxDay
  /\ today' = today + 1
  /\ UNCHANGED <<started, records, inventory, heap, tags, edit_mode, recFile,
                 invFile, tagFile, nops, last_op, arg, ret>>

\* ------------------------------------------------------------------------
\* init_session_state: a new session starts (the memory of an earlier
\* session, if any, is gone) and loads the three collections
\* ------------------------------------------------------------------------
init_session_state ==
  /\ ~started \/ nops < MaxOps
  /\ LET lr == load_records(recFile)
         n == Len(lr.recs)
         recs == [i \in 1..n |-> [lr.recs[i] EXCEPT !.inventory = i]]
         h0 == [i \in 1..n |-> lr.recs[i].inventory]
     IN  /\ records' = recs
         /\ recFile' = lr.file
         /\ IF n > 0
            THEN /\ inventory' = recs[1].inventory
                 /\ heap' = h0
            ELSE /\ inventory' = 1
                 /\ heap' = Alloc(h0, 1, load_inventory(invFile))
  /\ tags' = load_tags(tagFile)
  /\ edit_mode' = {}
  /\ started' = TRUE
  /\ nops' = IF started THEN nops + 1 ELSE nops
  /\ last_op' = Op("init")
  /\ UNCHANGED <<invFile, tagFile, today>>
  /\ PureUnchanged

\* ------------------------------------------------------------------------
\* inventory_tab: the number input and the two buttons of one cell
\* ------------------------------------------------------------------------
current_val(ttype, size) == heap[inventory][ttype][size]

\* position of a value in a sequence without repetition
IndexOf(seq, x) == CHOOSE i \in 1..Len(seq) : seq[i] = x

\* cell (t2, s2) is drawn no later than cell (t, s) by the loops over
\* TSHIRT_TYPES and SIZES
NotAfter(t2, s2, t, s) ==
  \/ IndexOf(TSHIRT_TYPES, t2) < IndexOf(TSHIRT_TYPES, t)
  \/ t2 = t /\ IndexOf(SIZES, s2) <= IndexOf(SIZES, s)

\* st.number_input(min_value=0, value=v) raises for v < 0 and the script run
\* ends there: the widgets of a grid are reached up to cell (t, s) only if
\* no cell drawn before it, nor the cell itself, holds a negative count
RendersUpTo(grid, t, s) ==
  \A t2 \in Types, s2 \in Sizes : NotAfter(t2, s2, t, s) => grid[t2][s2] >= 0

RendersAll(grid) == \A t \in Types, s \in Sizes : grid[t][s] >= 0

\* main() runs inventory_tab before tags_tab and records_tab
InventoryTabCompletes == RendersAll(heap[inventory])

StoreCell(ttype, size, v, name) ==
  /\ heap' = Collect(SetCell(heap, inventory, ttype, size, v), records, inventory)
  /\ invFile' = save_inventory(heap', inventory)
  /\ Done(name)
  /\ UNCHANGED <<started, records, inventory, tags, edit_mode, recFile, tagFile, today>>
  /\ PureUnchanged

NumberInput(ttype, size, new_val) ==
  /\ CanAct
  /\ RendersUpTo(heap[inventory], ttype, size)
  /\ new_val >= 0
  /\ new_val # current_val(ttype, size)
  /\ StoreCell(ttype, size, new_val, "grid_edit")

MinusButton(ttype, size) ==
  /\ CanAct
  /\ RendersUpTo(heap[inventory], ttype, size)
  /\ StoreCell(ttype, size,
               IF current_val(ttype, size) - 1 > 0 THEN current_val(ttype, size) - 1 ELSE 0,
               "grid_edit")

PlusButton(ttype, size) ==
  /\ CanAct
  /\ RendersUpTo(heap[inventory], ttype, size)
  /\ current_val(ttype, size) + 1 <= MaxCount
  /\ StoreCell(ttype, size, current_val(ttype, size) + 1, "grid_edit")

\* ------------------------------------------------------------------------
\* save_daily_record
\* ------------------------------------------------------------------------
\* index of the first record dated d, 0 when there is none
FirstIdx(recs, d) ==
  IF \E i \in 1..Len(recs) : recs[i].date = d
  THEN CHOOSE i \in 1..Len(recs) : recs[i].date = d /\ \A j \in 1..(i - 1) : recs[j].date # d
  ELSE 0

InsertFront(recs, r) == <<r>> \o recs

save_daily_record_mut(recs, existing_idx, new_record) == InsertFront(recs, new_record)

save_daily_record_recs(recs, existing_idx, new_record) ==
  IF existing_idx # 0
  THEN [recs EXCEPT ![existing_idx] = new_record]
  ELSE InsertFront(recs, new_record)

save_daily_record ==
  /\ CanAct
  /\ LET existing_idx == FirstIdx(records, today)
         ref == NewRef(DOMAIN heap)
         new_record == [date |-> today,
                        timestamp |-> [date |-> today, time |-> "now"],
                        inventory |-> ref,
                        note |-> "manual"]
         recs == save_daily_record_recs(records, existing_idx, new_record)
         h == Alloc(heap, ref, heap[inventory])
     IN  /\ records' = recs
         /\ heap' = Collect(h, recs, inventory)
         /\ recFile' = save_records(h, recs)
  /\ Done("commit")
  /\ UNCHANGED <<started, inventory, tags, edit_mode, invFile, tagFile, today>>
  /\ PureUnchanged

\* ------------------------------------------------------------------------
\* import_excel_data
\* ------------------------------------------------------------------------
\* existing_map = {r['date']: r for r in records}: the last record of a date
HasDate(recs, d) == \E i \in 1..Len(recs) : recs[i].date = d

ExistingRecord(recs, d) ==
  recs[CHOOSE i \in 1..Len(recs) :
         recs[i].date = d /\ \A j \in (i + 1)..Len(recs) : recs[j].date # d]

NewGrid_mut == SeedGrid

\* {t: {s: 0 for s in SIZES} for t in TSHIRT_TYPES}
NewGrid == [t \in Types |-> [s \in Sizes |-> 0]]

ApplyCells_add(grid, type_data) ==
  [t \in DOMAIN grid |-> [s \in DOMAIN grid[t] |->
      IF t \in DOMAIN type_data /\ s \in DOMAIN type_data[t]
      THEN grid[t][s] + type_data[t][s] ELSE grid[t][s]]]

ApplyCells_mut(grid, type_data) ==
  [t \in DOMAIN grid |-> [s \in DOMAIN grid[t] |->
      IF t \in DOMAIN type_data
      THEN (IF s \in DOMAIN type_data[t] THEN type_data[t][s] ELSE 0)
      ELSE grid[t][s]]]

\* for ttype, sizes in type_data.items(): for s, count in sizes.items():
\*     grid[ttype][s] = count
ApplyCells(grid, type_data) ==
  [t \in DOMAIN grid |-> [s \in DOMAIN grid[t] |->
      IF t \in DOMAIN type_data /\ s \in DOMAIN type_data[t]
      THEN type_data[t][s] ELSE grid[t][s]]]

\* one pass of the loop over date_records.items(); st is [recs, h];
\* existing is the record list existing_map was built from
MergeDate(st, existing, date_str, type_data, inv) ==
  IF HasDate(existing, date_str)
  THEN LET ref == ExistingRecord(existing, date_str).inventory
       IN  [recs |-> st.recs,
            h |-> [st.h EXCEPT ![ref] = ApplyCells(@, type_data)]]
  ELSE LET ref == NewRef((DOMAIN st.h) \cup {inv})
           new_record == [date |-> date_str,
                          timestamp |-> [date |-> date_str, time |-> Noon],
                          inventory |-> ref,
                          note |-> "excel"]
       IN  [recs |-> Append(st.recs, new_record),
            h |-> Alloc(st.h, ref, ApplyCells(NewGrid, type_data))]

RECURSIVE MergeDates(_, _, _, _, _)
MergeDates(st, existing, dr, inv, k) ==
  IF k > Len(dr.dates) THEN st
  ELSE MergeDates(MergeDate(st, existing, dr.dates[k], dr.data[dr.dates[k]], inv),
                  existing, dr, inv, k + 1)

\* records.sort(key=lambda x: x['date'], reverse=True)
SortRecords(recs) == SortByDateDesc(recs)

\* date_records is the result of import_matrix_excel_fast(uploaded_files),
\* the first statement of the handler
import_excel_data(date_records) ==
  /\ CanAct
  /\ date_records \in ParsedUploads
  /\ IF date_records.dates # <<>>
     THEN LET st == MergeDates([recs |-> records, h |-> heap], records,
                               date_records, inventory, 1)
              recs == SortRecords(st.recs)
          IN  /\ records' = recs
              /\ recFile' = save_records(st.h, recs)
              /\ inventory' = recs[1].inventory
              /\ heap' = Collect(st.h, recs, recs[1].inventory)
              /\ invFile' = save_inventory(st.h, recs[1].inventory)
     ELSE UNCHANGED <<records, recFile, inventory, heap, invFile>>
  /\ nops' = nops + 1
  /\ last_op' = [op |-> "import", dr |-> date_records,
                 again |-> last_op.op = "import" /\ last_op.dr = date_records]
  /\ UNCHANGED <<started, tags, edit_mode, tagFile, today>>
  /\ PureUnchanged

\* ------------------------------------------------------------------------
\* records_tab: delete, edit toggle, edit inputs, edit save
\* ------------------------------------------------------------------------
Pop(recs, i) == SubSeq(recs, 1, i - 1) \o SubSeq(recs, i + 1, Len(recs))

\* The date filter of the tab is the user's: the records drawn before
\* record i can be filtered out, so only record i's own widgets count.
DeleteRecord(i) ==
  /\ CanAct
  /\ InventoryTabCompletes
  /\ i \in 1..Len(records)
  /\ records[i].date \in UIDates
  /\ records' = Pop(records, i)
  /\ heap' = Collect(heap, records', inventory)
  /\ recFile' = save_records(heap, records')
  /\ Done("delete")
  /\ UNCHANGED <<started, inventory, tags, edit_mode, invFile, tagFile, today>>
  /\ PureUnchanged

ToggleEdit(i) ==
  /\ CanAct
  /\ InventoryTabCompletes
  /\ i \in 1..Len(records)
  /\ records[i].date \in UIDates
  /\ edit_mode' = IF records[i].date \in edit_mode
                  THEN edit_mode \ {records[i].date}
                  ELSE edit_mode \cup {records[i].date}
  /\ Done("toggle_edit")
  /\ UNCHANGED <<started, records, inventory, heap, tags, recFile, invFile, tagFile, today>>
  /\ PureUnchanged

\* a rerun in edit mode after the user changed one number input:
\* edited_inv is a shallow copy, so edited_inv[ttype][size] = ... writes
\* into the record's own size dict
EditInput(i, ttype, size, v) ==
  /\ CanAct
  /\ InventoryTabCompletes
  /\ i \in 1..Len(records)
  /\ records[i].date \in edit_mode
  /\ RendersUpTo(heap[records[i].inventory], ttype, size)
  /\ v >= 0
  /\ v # heap[records[i].inventory][ttype][size]
  /\ heap' = SetCell(heap, records[i].inventory, ttype, size, v)
  /\ Done("edit_input")
  /\ UNCHANGED <<started, records, inventory, tags, edit_mode, recFile, invFile, tagFile, today>>
  /\ PureUnchanged

\* the save button of the edit form; record['inventory'] = edited_inv keeps
\* the size dicts, so the reference stands for the same object
EditSave(i) ==
  /\ CanAct
  /\ InventoryTabCompletes
  /\ i \in 1..Len(records)
  /\ records[i].date \in edit_mode
  /\ RendersAll(heap[records[i].inventory])
  /\ recFile' = save_records(heap, records)
  /\ edit_mode' = edit_mode \ {records[i].date}
  /\ Done("edit_save")
  /\ UNCHANGED <<started, records, inventory, heap, tags, invFile, tagFile, today>>
  /\ PureUnchanged

\* ------------------------------------------------------------------------
\* update_tag_stock
\* ------------------------------------------------------------------------
ActionTypes == {"consume", "receive", "defect"}  \* 使用 (-), 入荷・追加 (+), 不良 (-)

new_stock_mut(current_stock, action_type, amount) ==
  IF action_type = "consume" THEN current_stock - amount
  ELSE current_stock + amount

new_stock(current_stock, action_type, amount) ==
  IF action_type = "consume" THEN current_stock - amount
  ELSE IF action_type = "receive" THEN current_stock + amount
  ELSE current_stock - amount

update_tag_stock(action_type, amount) ==
  /\ CanAct
  /\ InventoryTabCompletes
  /\ amount > 0
  /\ LET ns == new_stock(tags.current_stock, action_type, amount)
         new_entry == [timestamp |-> today, date |-> today, action |-> action_type,
                       amount |-> amount, stock_after |-> ns, note |-> ""]
     IN  tags' = [current_stock |-> ns, history |-> <<new_entry>> \o tags.history]
  /\ tagFile' = save_tags(tags')
  /\ nops' = nops + 1
  /\ last_op' = Op("tag")
  /\ UNCHANGED <<started, records, inventory, heap, edit_mode, recFile, invFile, today>>
  /\ PureUnchanged

\* ------------------------------------------------------------------------
\* The program
\* ------------------------------------------------------------------------
Next ==
  \/ init_session_state
  \/ Tick
  \/ \E c \in UICells, v \in 0..MaxCount : NumberInput(c[1], c[2], v)
  \/ \E c \in UICells : MinusButton(c[1], c[2])
  \/ \E c \in UICells : PlusButton(c[1], c[2])
  \/ save_daily_record
  \/ \E dr \in ParsedUploads : import_excel_data(dr)
  \/ \E i \in 1..Len(records) : DeleteRecord(i)
  \/ \E i \in 1..Len(records) : ToggleEdit(i)
  \/ \E i \in 1..Len(records), c \in UICells, v \in 0..MaxCount : EditInput(i, c[1], c[2], v)
  \/ \E i \in 1..Len(records) : EditSave(i)
  \/ \E a \in ActionTypes, n \in 1..MaxAmount : update_tag_stock(a, n)

Spec == Init /\ [][Next]_vars

\* The shirt collections and the tag ledger share no state: the sessions
\* that only work on the shirts, and those that only work on the tags
NextShirts ==
  \/ init_session_state
  \/ Tick
  \/ \E c \in UICells, v \in 0..MaxCount : NumberInput(c[1], c[2], v)
  \/ \E c \in UICells : MinusButton(c[1], c[2])
  \/ \E c \in UICells : PlusButton(c[1], c[2])
  \/ save_daily_record
  \/ \E dr \in ParsedUploads : import_excel_data(dr)
  \/ \E i \in 1..Len(records) : DeleteRecord(i)
  \/ \E i \in 1..Len(records) : ToggleEdit(i)
  \/ \E i \in 1..Len(records), c \in UICells, v \in 0..MaxCount : EditInput(i, c[1], c[2], v)
  \/ \E i \in 1..Len(records) : EditSave(i)

SpecShirts == Init /\ [][NextShirts]_vars

NextTags ==
  \/ init_session_state
  \/ Tick
  \/ \E a \in ActionTypes, n \in 1..MaxAmount : update_tag_stock(a, n)

SpecTags == Init /\ [][NextTags]_vars

\* ------------------------------------------------------------------------
\* Pure functions under test: the argument is drawn in the initial state,
\* the action applies the function
\* ------------------------------------------------------------------------
RECURSIVE Concat(_)
Concat(ps) == IF ps = <<>> THEN <<>> ELSE Head(ps) \o Concat(Tail(ps))

PieceSeqs(P) == UNION { [1..n -> P] : n \in 0..MaxPieces }

\* 白 ホワイト 黒 ブラック あり なし フ dakuten （ _
NamePieces ==
  { TOK_shiro, TOK_white, TOK_kuro, TOK_black, TOK_ari, TOK_nasi,
    <<12501>>, <<12441>>, <<65288>>, <<95>> }

\* 150 160 XXL 3L XL LL L M S, full-width L, full-width 1, cm, blank
SizePieces ==
  { T150, T160, TXXL, T3L, TXL, TLL, TL, TM, TS,
    <<65324>>, <<65297>>, <<99, 109>>, <<32>> }

Idle ==
  /\ started = FALSE
  /\ records = <<>>
  /\ inventory = 0
  /\ heap = <<>>
  /\ tags = DefaultTags
  /\ edit_mode = {}
  /\ recFile = Absent /\ invFile = Absent /\ tagFile = Absent
  /\ today = INITIAL_DATA_END
  /\ nops = 0
  /\ last_op = NoOp

IdleUnchanged ==
  UNCHANGED <<started, records, inventory, heap, tags, edit_mode, recFile,
              invFile, tagFile, today, nops, last_op>>

InitType == Idle /\ arg \in { Concat(ps) : ps \in PieceSeqs(NamePieces) } /\ ret = ""

CallDetermineType ==
  /\ ret = ""
  /\ ret' = determine_type_from_filename(arg)
  /\ UNCHANGED arg
  /\ IdleUnchanged

NextType == CallDetermineType

SpecType == InitType /\ [][NextType]_vars

InitSize == Idle /\ arg \in { Concat(ps) : ps \in PieceSeqs(SizePieces) } /\ ret = ""

CallNormalizeSize ==
  /\ ret = ""
  /\ ret' = normalize_size(arg)
  /\ UNCHANGED arg
  /\ IdleUnchanged

NextSize == CallNormalizeSize

SpecSize == InitSize /\ [][NextSize]_vars

\* import_matrix_excel_fast on one uploaded file: arg is the list of files,
\* ret is [done, dr] with dr the date_records returned
Col0Cells == { NaN, StrCell(TXL), StrCell(<<>>) }           \* empty, "XL", ""
Col1Cells == { NaN, StrCell(<<65325>>), StrCell(TS) }       \* empty, full-width M, "S"

\* 黒_あり, x
ParseNames == { <<40658, 95, 12354, 12426>>, <<120>> }

ParseFiles ==
  { [name |-> n, df |-> Sheet(pad, d, c0, c1, v)] :
      pad \in 0..MaxPad, n \in ParseNames, d \in HeaderDateCells,
      c0 \in Col0Cells, c1 \in Col1Cells, v \in ValueCells }

InitParse ==
  /\ Idle
  /\ arg \in { <<f>> : f \in ParseFiles }
  /\ ret = [done |-> FALSE, dr |-> EmptyDateRecords]

CallImportMatrix ==
  /\ ~ret.done
  /\ ret' = [done |-> TRUE, dr |-> import_matrix_excel_fast(arg)]
  /\ UNCHANGED arg
  /\ IdleUnchanged

NextParse == CallImportMatrix

SpecParse == InitParse /\ [][NextParse]_vars

\* ------------------------------------------------------------------------
\* Properties
\* ------------------------------------------------------------------------
GridOf(r) == heap[r.inventory]

Observed(dr, d, t, s) ==
  d \in DOMAIN dr.data /\ t \in DOMAIN dr.data[d] /\ s \in DOMAIN dr.data[d][t]

\* the step is an import that found observations
ImportStep == nops' = nops + 1 /\ last_op'.op = "import" /\ last_op'.dr.dates # <<>>

DatesUnique(recs) ==
  \A i, j \in 1..Len(recs) : i # j => recs[i].date # recs[j].date

\* C1: the Snapshot Store, in memory and in the records file, holds at most
\* one Snapshot per date after any sequence of commit, import and delete.
C1_StoreUniqueness == DatesUnique(records) /\ DatesUnique(recFile.data)

C1_Witness ==
  /\ last_op.op = "import"
  /\ \E i \in 1..Len(records) : records[i].note = "manual" /\ records[i].date = INITIAL_DATA_END
  /\ \E i \in 1..Len(records) : records[i].note = "excel"

\* C2: importing the same observations a second time, right after the first
\* import, leaves the Snapshot Store (dates, grids, notes, timestamps) as the
\* first import left it, in memory and in the records file.
C2_ImportIdempotent ==
  [][ (ImportStep /\ last_op.op = "import" /\ last_op.dr = last_op'.dr)
        => /\ RecordValues(heap', records') = RecordValues(heap, records)
           /\ recFile' = recFile ]_vars

C2_Witness ==
  /\ last_op.op = "import" /\ last_op.again
  /\ \E d \in DOMAIN last_op.dr.data : \E t \in Types, s \in Sizes :
        Observed(last_op.dr, d, t, s) /\ last_op.dr.data[d][t][s] # 0

\* C3: an import overwrites, in a Snapshot that exists for an observed date,
\* the observed (variant, size) cells only; every other cell of every
\* Snapshot that existed before the import keeps its value.
C3_MergeFieldLocal ==
  [][ ImportStep =>
        \A i \in 1..Len(records) :
          \E j \in 1..Len(records') :
            /\ records'[j].date = records[i].date
            /\ \A t \in Types, s \in Sizes :
                 heap'[records'[j].inventory][t][s] =
                   IF Observed(last_op'.dr, records[i].date, t, s)
                   THEN last_op'.dr.data[records[i].date][t][s]
                   ELSE heap[records[i].inventory][t][s] ]_vars

C3_Witness ==
  /\ last_op.op = "import"
  /\ \E i \in 1..Len(records) :
       /\ records[i].note = "seed"
       /\ Observed(last_op.dr, records[i].date, "black_ari", "XL")
       /\ GridOf(records[i])["black_ari"]["XL"] = last_op.dr.data[records[i].date]["black_ari"]["XL"]
       /\ GridOf(records[i])["black_ari"]["M"] = 14

\* C4: for an observed date without Snapshot, the import creates exactly one
\* Snapshot of that date; its grid holds every catalog variant and size, the
\* observed cells at the observed counts and every other cell at 0.
C4_NewSnapshotZeroFilled ==
  [][ ImportStep =>
        \A d \in DOMAIN last_op'.dr.data :
          ~HasDate(records, d) =>
            /\ Cardinality({j \in 1..Len(records') : records'[j].date = d}) = 1
            /\ \A j \in 1..Len(records') :
                 records'[j].date = d =>
                   /\ DOMAIN heap'[records'[j].inventory] = Types
                   /\ \A t \in Types :
                        /\ DOMAIN heap'[records'[j].inventory][t] = Sizes
                        /\ \A s \in Sizes :
                             heap'[records'[j].inventory][t][s] =
                               IF Observed(last_op'.dr, d, t, s)
                               THEN last_op'.dr.data[d][t][s] ELSE 0 ]_vars

C4_Witness ==
  /\ last_op.op = "import"
  /\ \E i \in 1..Len(records) :
       /\ records[i].note = "excel"
       /\ records[i].date > today
       /\ Observed(last_op.dr, records[i].date, "white_nasi", "M")
       /\ GridOf(records[i])["white_nasi"]["M"] = 2

GridNonNegative(g) == \A t \in DOMAIN g : \A s \in DOMAIN g[t] : g[t][s] >= 0

\* C5: every count of the current grid and of every Snapshot's grid is a
\* non-negative integer, whatever the imported cells hold.
C5_CountsNonNegative ==
  started => /\ GridNonNegative(heap[inventory])
             /\ \A i \in 1..Len(records) : GridNonNegative(GridOf(records[i]))

IsMaxDate(recs, i) == \A j \in 1..Len(recs) : recs[j].date <= recs[i].date

\* the state right after a session start or an import that merged something
CurrentEstablished ==
  started /\ (last_op.op = "init" \/ (last_op.op = "import" /\ last_op.dr.dates # <<>>))

\* C6 as stated: the current inventory established at session start and by
\* an import is the grid of the Snapshot of the maximum date, and the
\* all-zero grid when the store is empty.
C6_CurrentInventoryOriginal ==
  CurrentEstablished =>
    IF records # <<>>
    THEN \E i \in 1..Len(records) : IsMaxDate(records, i) /\ heap[inventory] = GridOf(records[i])
    ELSE heap[inventory] = ZeroGrid

\* C6 amended: the current inventory established at session start and by an
\* import is the grid of the Snapshot of the maximum date; when the store
\* is empty it is the content of the inventory file if that file exists and
\* otherwise the grid of the newest seed record.
C6_CurrentInventory ==
  CurrentEstablished =>
    IF records # <<>>
    THEN \E i \in 1..Len(records) : IsMaxDate(records, i) /\ heap[inventory] = GridOf(records[i])
    ELSE heap[inventory] =
           IF invFile.exists THEN invFile.data
           ELSE [t \in Types |-> [s \in Sizes |->
                   IF t = "black_ari" THEN INITIAL_INVENTORY_BLACK_ARI[s] ELSE 0]]

C6_Witness ==
  /\ started /\ last_op.op = "init" /\ records = <<>>
  /\ invFile.exists /\ heap[inventory] # ZeroGrid

\* C7: determine_type_from_filename returns a catalog variant only when
\* exactly one colour flag and exactly one mark flag is true, then the
\* variant of that pair, and None for every other combination of the flags.
C7_ExactlyOneFlagEach ==
  ret # "" =>
    LET base == FileBase(arg)
        w == is_white(base)
        b == is_black(base)
        a == is_ari(base)
        n == is_nasi(base)
    IN  ret = IF (w # b) /\ (a # n)
              THEN (IF w /\ n THEN "white_nasi" ELSE IF w /\ a THEN "white_ari"
                    ELSE IF b /\ n THEN "black_nasi" ELSE "black_ari")
              ELSE "None"

\* C8 as stated: a label containing XXL yields XXL; a label containing XL or
\* LL and none of XXL, 3L, 150, 160 yields XL; a label containing none of
\* the tokens yields None.
C8_SizePrecedenceOriginal ==
  ret # "" =>
    LET val == SizeVal(arg)
    IN  /\ Contains(TXXL, val) => ret = "XXL"
        /\ ( /\ Contains(TXL, val) \/ Contains(TLL, val)
             /\ ~Contains(TXXL, val) /\ ~Contains(T3L, val)
             /\ ~Contains(T150, val) /\ ~Contains(T160, val) ) => ret = "XL"
        /\ (\A tok \in {T150, T160, TXXL, T3L, TXL, TLL, TL, TM, TS} : ~Contains(tok, val))
             => ret = "None"

\* C8 amended: a label containing XXL and neither 150 nor 160 yields XXL; a
\* label containing XL or LL and none of XXL, 3L, 150, 160 yields XL; a
\* label containing none of the tokens yields None.
C8_SizePrecedence ==
  ret # "" =>
    LET val == SizeVal(arg)
    IN  /\ (Contains(TXXL, val) /\ ~Contains(T150, val) /\ ~Contains(T160, val))
             => ret = "XXL"
        /\ ( /\ Contains(TXL, val) \/ Contains(TLL, val)
             /\ ~Contains(TXXL, val) /\ ~Contains(T3L, val)
             /\ ~Contains(T150, val) /\ ~Contains(T160, val) ) => ret = "XL"
        /\ (\A tok \in {T150, T160, TXXL, T3L, TXL, TLL, TL, TM, TS} : ~Contains(tok, val))
             => ret = "None"

C8_Witness ==
  /\ ret = "XXL"
  /\ Contains(TXXL, SizeVal(arg)) /\ Contains(TLL, SizeVal(arg))
  /\ arg # SizeVal(arg)

\* the step is an update_tag_stock
TagStep == nops' = nops + 1 /\ last_op'.op = "tag"

\* C9: update_tag_stock with amount >= 1 subtracts the amount for consume
\* and defect and adds it for receive, negative results included, and
\* prepends one entry whose stock_after is the new balance; the head entry's
\* stock_after is always current_stock and earlier entries are unchanged.
C9_TagLedger ==
  /\ [](tags.history # <<>> => Head(tags.history).stock_after = tags.current_stock)
  /\ [][ TagStep =>
           /\ Len(tags'.history) = Len(tags.history) + 1
           /\ Tail(tags'.history) = tags.history
           /\ Head(tags'.history).amount >= 1
           /\ Head(tags'.history).stock_after = tags'.current_stock
           /\ tags'.current_stock =
                IF Head(tags'.history).action = "receive"
                THEN tags.current_stock + Head(tags'.history).amount
                ELSE tags.current_stock - Head(tags'.history).amount ]_vars

C9_Witness ==
  /\ last_op.op = "tag"
  /\ Len(tags.history) >= 2
  /\ tags.current_stock < 0
  /\ Head(tags.history).action = "defect"

MutatingOps == {"grid_edit", "commit", "import", "edit_save", "delete", "tag"}

\* C10: after every mutating operation each persisted collection holds what
\* its in-memory counterpart holds (an absent file standing for what its
\* loader returns in its place).
C10_FilesMatchMemory ==
  (started /\ last_op.op \in MutatingOps) =>
    /\ recFile.exists /\ recFile.data = RecordValues(heap, records)
    /\ load_inventory(invFile) = heap[inventory]
    /\ load_tags(tagFile) = tags

SizesOfType(byType) == UNION { DOMAIN byType[t] : t \in DOMAIN byType }

\* the file names a variant, has a marker row and a date column in it
Parsable(file) ==
  /\ determine_type_from_filename(file.name) # "None"
  /\ \E i \in 1..Len(file.df) : RowHasMarker(file.df[i]) /\ DateCols(file.df[i]) # {}

\* C11: the header search looks at the first K rows only (K = 15, the value
\* the specification names): a sheet whose first K rows hold no marker
\* yields no observations, also when a later row holds the marker.
C11_HeaderScanBounded ==
  ret.done =>
    LET df == arg[1].df
    IN  (\A i \in 1..Len(df) : i <= 15 => ~RowHasMarker(df[i]))
          => ret.dr.dates = <<>>

CellNonEmpty(c) == c.k # "nan" /\ Str(c) # <<>>

\* the label of a data row as the claim reads it: column index 1 when it is
\* non-empty, column index 0 otherwise
LabelColumn1First(row) ==
  IF Len(row) > 1 /\ CellNonEmpty(row[2]) THEN Str(row[2])
  ELSE IF CellNonEmpty(row[1]) THEN Str(row[1])
  ELSE <<>>

\* C12: every data row below the header is recorded under the size of its
\* column-index-1 label when that cell is non-empty, and under the size of
\* column index 0 only when column index 1 is empty.
C12_SizeFromColumn1 ==
  (ret.done /\ Parsable(arg[1])) =>
    LET df == arg[1].df
        h == CHOOSE i \in 1..Len(df) :
               RowHasMarker(df[i]) /\ \A j \in 1..(i - 1) : ~RowHasMarker(df[j])
    IN  UNION { SizesOfType(ret.dr.data[d]) : d \in DOMAIN ret.dr.data }
          = { normalize_size(LabelColumn1First(df[i])) : i \in (h + 1)..Len(df) } \ {"None"}

\* the step is an edit of the current grid (number input, - or + button)
GridEditStep == nops' = nops + 1 /\ last_op'.op = "grid_edit"

\* C13: changing a count of the current inventory grid leaves every
\* Snapshot of the in-memory store as it was.
C13_GridEditKeepsSnapshots ==
  [][ GridEditStep => RecordValues(heap', records') = RecordValues(heap, records) ]_vars

\* C14: the in-memory records list is sorted descending by date, so its
\* first element is the Snapshot of the maximum date, also when the store
\* holds a Snapshot dated later than today.
C14_RecordsSortedDesc ==
  started =>
    /\ \A i, j \in 1..Len(records) : i < j => records[i].date >= records[j].date
    /\ records # <<>> => IsMaxDate(records, 1)

====
